---- MODULE Spec2Model ----
(***************************************************************************)
(* pyinfra/modules/mysql.py: the state-bearing operations database, user   *)
(* and permission.  Each operation is a generator: it fetches facts from   *)
(* the host, compares them with the desired state and yields commands.     *)
(*                                                                         *)
(* Text is modelled as a sequence of words: a format template contributes  *)
(* its fixed words and the values substituted into it, ' '.join is         *)
(* concatenation, and str.replace acts word by word.                       *)
(***************************************************************************)
EXTENDS Integers, Sequences, FiniteSets, TLC

VARIABLES
    databases,  \* host: the names of the existing databases
    users,      \* host: the existing identities, each <<name, "@", hostname>>
    grants,     \* host: identity -> grant snapshot (scope key -> [permissions])
    phase,      \* "idle" | "yielded" | "repeat"
    call,       \* the operation called last and its arguments
    commands,   \* the commands the call yielded, in order
    fetches,    \* the fact fetches the call made, in order
    error,      \* "none" | "KeyError": how the call ended
    rerun       \* TRUE when the call repeats the previous one on the updated host

vars == <<databases, users, grants, phase, call, commands, fetches, error, rerun>>

----------------------------------------------------------------------------
(* Bounds and input domains *)

MaxPerms == 2

None == "None"

\* the backtick character, and the same preceded by a backslash
Backtick == "<backtick>"
EscapedBacktick == "<backslash><backtick>"

DBNames == {"db1"}
TableNames == {"t1"}
UserNames == {"bob"}
Hostnames == {"localhost", "%"}
Passwords == {None, "secret"}
Collates == {None, "utf8_bin"}
Charsets == {None, "utf8"}

\* the tokens a caller may ask for, in a fixed order, and those a host reports
TokenOrder == <<"ALL", "ALL PRIVILEGES", "INSERT", "SELECT">>
Tokens == {TokenOrder[i] : i \in DOMAIN TokenOrder}
HostTokens == {"ALL PRIVILEGES", "INSERT", "SELECT"}

\* connection parameters: all unset, or all set
Connections == {
    [mysql_user |-> None, mysql_password |-> None, mysql_host |-> None, mysql_port |-> None],
    [mysql_user |-> "root", mysql_password |-> "pw", mysql_host |-> "dbhost", mysql_port |-> "3306"]}

----------------------------------------------------------------------------
(* Python values *)

\* a permissions argument: None, a single string, or a list of strings
NoPermissions == [type |-> "NoneType", value |-> <<>>]
Str(s) == [type |-> "str", value |-> <<s>>]
List(l) == [type |-> "list", value |-> l]

\* truth value of an argument in an if
Truthy(x) == x # None
TruthyPermissions(p) == p.type # "NoneType" /\ p.value # <<>>

IndexOf(seq, w) == CHOOSE i \in DOMAIN seq : seq[i] = w /\ \A j \in 1..(i - 1) : seq[j] # w

\* strictly increasing index sequences give the lists without repetition
Increasing(s) == \A i \in 1..(Len(s) - 1) : s[i] < s[i + 1]
PermissionLists ==
    { [i \in DOMAIN s |-> TokenOrder[s[i]]] :
        s \in { t \in UNION { [1..n -> DOMAIN TokenOrder] : n \in 0..MaxPerms } : Increasing(t) } }
PermissionInputs == { List(l) : l \in PermissionLists } \cup { Str("ALL") }

----------------------------------------------------------------------------
(* Collaborators: the fact provider and the command builder *)

Identities == { <<n, "@", h>> : n \in UserNames, h \in Hostnames }

EmptySnapshot == [k \in {} |-> [permissions |-> {}]]

ConnectionOf(a) == <<a.mysql_user, a.mysql_password, a.mysql_host, a.mysql_port>>

\* host.fact.mysql_databases(...): the set of database names
mysql_databases(host) == host.databases

\* host.fact.mysql_users(...): the set of identities
mysql_users(host) == host.users

\* host.fact.mysql_user_grants(user, hostname, ...): a plain mapping from
\* scope key to [permissions]; a key with no grant is not in the mapping
mysql_user_grants(host, user, user_hostname) == host.grants[<<user, "@", user_hostname>>]

\* one entry of the log of fact fetches: which fact, for whom, over which
\* connection, and how many commands the call had yielded before it
Fetch(fact, who, conn, at) == [fact |-> fact, who |-> who, conn |-> conn, at |-> at]

make_execute_mysql_command(sql, user, password, host, port) ==
    [sql |-> sql, user |-> user, password |-> password, host |-> host, port |-> port]

----------------------------------------------------------------------------
(* permission *)

PermissionDefaults ==
    [user_hostname |-> "localhost", database |-> "*", table |-> "*",
     present |-> TRUE, flush |-> TRUE,
     mysql_user |-> None, mysql_password |-> None,
     mysql_host |-> None, mysql_port |-> None]

\* isinstance(permissions, six.string_types): a string becomes a one-element list
EnsureList(permissions) ==
    IF permissions.type = "str" THEN <<permissions.value[1]>> ELSE permissions.value

\* a name other than '*' is wrapped in backticks
Quote(x) == IF x # "*" THEN <<Backtick, x, Backtick>> ELSE <<x>>

DatabaseTable(database, table) == Quote(database) \o <<".">> \o Quote(table)

NormalizePermission(p) == IF p = "ALL PRIVILEGES" THEN "ALL" ELSE p

\* evaluated only when database_table is a key of user_grants
ExistingPermissions(user_grants, database_table) ==
    { NormalizePermission(p) : p \in user_grants[database_table].permissions }

\* mutant: the desired tokens must be exactly the held ones
HasPermissions_Equality(user_grants, database_table, permissions) ==
    /\ database_table \in DOMAIN user_grants
    /\ { permissions[i] : i \in DOMAIN permissions }
         = ExistingPermissions(user_grants, database_table)

HasPermissions(user_grants, database_table, permissions) ==
    /\ database_table \in DOMAIN user_grants
    /\ \A i \in DOMAIN permissions :
         permissions[i] \in ExistingPermissions(user_grants, database_table)

PermissionAction(has_permissions, present) ==
    IF ~has_permissions /\ present THEN <<"GRANT", "TO">>
    ELSE IF has_permissions /\ ~present THEN <<"REVOKE", "FROM">>
    ELSE <<None, None>>

\* str.replace over the assembled text: every backtick gets a backslash
EscapeBackticks(words) == [i \in DOMAIN words |-> IF words[i] = Backtick THEN EscapedBacktick ELSE words[i]]

PermissionCommand(action, target, permissions, database, table, user, user_hostname) ==
    EscapeBackticks(
        <<action>> \o permissions \o <<"ON">> \o Quote(database) \o <<".">> \o Quote(table)
        \o <<target, user, "@", user_hostname>>)

\* mutant: the flush is not nested under the test of target and action
PermissionCommands_FlushAlways(a, permissions, action, target) ==
    (IF action # None /\ target # None
     THEN <<make_execute_mysql_command(
               PermissionCommand(action, target, permissions,
                                 a.database, a.table, a.user, a.user_hostname),
               a.mysql_user, a.mysql_password, a.mysql_host, a.mysql_port)>>
     ELSE <<>>)
    \o (IF a.flush
        THEN <<make_execute_mysql_command(<<"FLUSH PRIVILEGES">>,
                   a.mysql_user, a.mysql_password, a.mysql_host, a.mysql_port)>>
        ELSE <<>>)

PermissionCommands(a, permissions, action, target) ==
    IF action # None /\ target # None
    THEN <<make_execute_mysql_command(
              PermissionCommand(action, target, permissions,
                                a.database, a.table, a.user, a.user_hostname),
              a.mysql_user, a.mysql_password, a.mysql_host, a.mysql_port)>>
         \o (IF a.flush
             THEN <<make_execute_mysql_command(<<"FLUSH PRIVILEGES">>,
                        a.mysql_user, a.mysql_password, a.mysql_host, a.mysql_port)>>
             ELSE <<>>)
    ELSE <<>>

\* the subscript user_grants[database_table] of the list comprehension is
\* evaluated before the membership test: a missing key raises KeyError
permission(host, a) ==
    LET permissions == EnsureList(a.permissions)
        database_table == DatabaseTable(a.database, a.table)
        user_grants == mysql_user_grants(host, a.user, a.user_hostname)
        fetch == Fetch("mysql_user_grants", <<a.user, "@", a.user_hostname>>, ConnectionOf(a), 0)
    IN  IF database_table \notin DOMAIN user_grants
        THEN [commands |-> <<>>, fetches |-> <<fetch>>, error |-> "KeyError"]
        ELSE LET has_permissions == HasPermissions(user_grants, database_table, permissions)
                 act == PermissionAction(has_permissions, a.present)
             IN  [commands |-> PermissionCommands(a, permissions, act[1], act[2]),
                  fetches |-> <<fetch>>, error |-> "none"]

\* yield permission(...) inside another operation: the nested generator runs
\* after the caller's own commands, and its commands follow them
Delegate(own, ownFetches, nested) ==
    [commands |-> own \o nested.commands,
     fetches |-> ownFetches \o
        [i \in DOMAIN nested.fetches |->
            [nested.fetches[i] EXCEPT !.at = @ + Len(own)]],
     error |-> nested.error]

----------------------------------------------------------------------------
(* user *)

UserHost(name, user_hostname) == <<name, "@", user_hostname>>

DropUserCommand(a) ==
    make_execute_mysql_command(<<"DROP USER", a.name, "@", a.user_hostname>>,
        a.mysql_user, a.mysql_password, a.mysql_host, a.mysql_port)

CreateUserCommand(a) ==
    make_execute_mysql_command(
        <<"CREATE USER", a.name, "@", a.user_hostname>>
        \o (IF Truthy(a.password) THEN <<"IDENTIFIED BY", a.password>> ELSE <<>>),
        a.mysql_user, a.mysql_password, a.mysql_host, a.mysql_port)

\* permission(state, host, name, permissions, mysql_user=..., ...): every
\* other parameter takes its default
UserPermissionArgs(a) ==
    [PermissionDefaults EXCEPT
        !.mysql_user = a.mysql_user, !.mysql_password = a.mysql_password,
        !.mysql_host = a.mysql_host, !.mysql_port = a.mysql_port]
    @@ [user |-> a.name, permissions |-> a.permissions]

\* mutant: no return after the branch of an unwanted user
user_NoReturn(host, a) ==
    LET fetch == Fetch("mysql_users", <<>>, ConnectionOf(a), 0)
        is_present == UserHost(a.name, a.user_hostname) \in mysql_users(host)
        none == [commands |-> <<>>, fetches |-> <<>>, error |-> "none"]
    IN  Delegate(
            IF ~a.present
            THEN (IF is_present THEN <<DropUserCommand(a)>> ELSE <<>>)
            ELSE (IF ~is_present THEN <<CreateUserCommand(a)>> ELSE <<>>),
            <<fetch>>,
            IF TruthyPermissions(a.permissions)
            THEN permission(host, UserPermissionArgs(a)) ELSE none)

\* mutant: permissions is tested against None, so an empty list delegates too
user_DelegatesEmpty(host, a) ==
    LET fetch == Fetch("mysql_users", <<>>, ConnectionOf(a), 0)
        is_present == UserHost(a.name, a.user_hostname) \in mysql_users(host)
        none == [commands |-> <<>>, fetches |-> <<>>, error |-> "none"]
    IN  IF ~a.present
        THEN [commands |-> IF is_present THEN <<DropUserCommand(a)>> ELSE <<>>,
              fetches |-> <<fetch>>, error |-> "none"]
        ELSE Delegate(
                IF ~is_present THEN <<CreateUserCommand(a)>> ELSE <<>>,
                <<fetch>>,
                IF a.permissions.type # "NoneType"
                THEN permission(host, UserPermissionArgs(a)) ELSE none)

user(host, a) ==
    LET current_users == mysql_users(host)
        fetch == Fetch("mysql_users", <<>>, ConnectionOf(a), 0)
        is_present == UserHost(a.name, a.user_hostname) \in current_users
        none == [commands |-> <<>>, fetches |-> <<>>, error |-> "none"]
    IN  IF ~a.present
        THEN [commands |-> IF is_present THEN <<DropUserCommand(a)>> ELSE <<>>,
              fetches |-> <<fetch>>, error |-> "none"]
        ELSE Delegate(
                IF a.present /\ ~is_present THEN <<CreateUserCommand(a)>> ELSE <<>>,
                <<fetch>>,
                IF TruthyPermissions(a.permissions)
                THEN permission(host, UserPermissionArgs(a)) ELSE none)

----------------------------------------------------------------------------
(* database *)

DropDatabaseCommand(a) ==
    make_execute_mysql_command(<<"DROP DATABASE", a.name>>,
        a.mysql_user, a.mysql_password, a.mysql_host, a.mysql_port)

CreateDatabaseCommand(a) ==
    make_execute_mysql_command(
        <<"CREATE DATABASE", a.name>>
        \o (IF Truthy(a.collate) THEN <<"COLLATE", a.collate>> ELSE <<>>)
        \o (IF Truthy(a.charset) THEN <<"CHARSET", a.charset>> ELSE <<>>),
        a.mysql_user, a.mysql_password, a.mysql_host, a.mysql_port)

\* permission(state, host, user, user_hostname=..., permissions=...,
\* database=name): every other parameter takes its default
DatabasePermissionArgs(a) ==
    [PermissionDefaults EXCEPT !.user_hostname = a.user_hostname, !.database = a.name]
    @@ [user |-> a.user, permissions |-> a.user_permissions]

\* mutant: no return after the branch of an unwanted database
database_NoReturn(host, a) ==
    LET fetch == Fetch("mysql_databases", <<>>, ConnectionOf(a), 0)
        is_present == a.name \in mysql_databases(host)
        none == [commands |-> <<>>, fetches |-> <<>>, error |-> "none"]
    IN  Delegate(
            IF ~a.present
            THEN (IF is_present THEN <<DropDatabaseCommand(a)>> ELSE <<>>)
            ELSE (IF ~is_present THEN <<CreateDatabaseCommand(a)>> ELSE <<>>),
            <<fetch>>,
            IF Truthy(a.user) /\ TruthyPermissions(a.user_permissions)
            THEN permission(host, DatabasePermissionArgs(a)) ELSE none)

database(host, a) ==
    LET current_databases == mysql_databases(host)
        fetch == Fetch("mysql_databases", <<>>, ConnectionOf(a), 0)
        is_present == a.name \in current_databases
        none == [commands |-> <<>>, fetches |-> <<>>, error |-> "none"]
    IN  IF ~a.present
        THEN [commands |-> IF is_present THEN <<DropDatabaseCommand(a)>> ELSE <<>>,
              fetches |-> <<fetch>>, error |-> "none"]
        ELSE Delegate(
                IF a.present /\ ~is_present THEN <<CreateDatabaseCommand(a)>> ELSE <<>>,
                <<fetch>>,
                IF Truthy(a.user) /\ TruthyPermissions(a.user_permissions)
                THEN permission(host, DatabasePermissionArgs(a)) ELSE none)

----------------------------------------------------------------------------
(* The host: what executing the yielded commands does to it *)

Verb(c) == c.sql[1]

\* the parts of a GRANT / REVOKE statement
StatementPermissions(sql) == SubSeq(sql, 2, IndexOf(sql, "ON") - 1)
StatementScope(sql) == SubSeq(sql, IndexOf(sql, "ON") + 1, Len(sql) - 4)
StatementIdentity(sql) == SubSeq(sql, Len(sql) - 2, Len(sql))

\* the shell takes the backslash off each escaped backtick
Unescape(words) == [i \in DOMAIN words |-> IF words[i] = EscapedBacktick THEN Backtick ELSE words[i]]

SetOf(seq) == { seq[i] : i \in DOMAIN seq }

PermissionsAt(snapshot, key) ==
    IF key \in DOMAIN snapshot THEN snapshot[key].permissions ELSE {}

\* a scope left with no privilege is no longer reported
WithPermissions(snapshot, key, perms) ==
    [k \in (IF perms = {} THEN DOMAIN snapshot \ {key} ELSE DOMAIN snapshot \cup {key}) |->
        IF k = key THEN [permissions |-> perms] ELSE snapshot[k]]

Granted(snapshot, key, perms) ==
    LET old == PermissionsAt(snapshot, key)
    IN  IF perms = {} THEN snapshot
        ELSE IF "ALL" \in perms \/ "ALL PRIVILEGES" \in perms \/ "ALL PRIVILEGES" \in old
        THEN WithPermissions(snapshot, key, {"ALL PRIVILEGES"})
        ELSE WithPermissions(snapshot, key, old \cup perms)

Revoked(snapshot, key, perms) ==
    LET old == PermissionsAt(snapshot, key)
    IN  IF perms = {} THEN snapshot
        ELSE IF "ALL" \in perms \/ "ALL PRIVILEGES" \in perms
        THEN WithPermissions(snapshot, key, {})
        ELSE IF "ALL PRIVILEGES" \in old
        THEN WithPermissions(snapshot, key, (HostTokens \ {"ALL PRIVILEGES"}) \ perms)
        ELSE WithPermissions(snapshot, key, old \ perms)

ApplyCommand(host, c) ==
    LET sql == Unescape(c.sql)
        id == IF Verb(c) \in {"CREATE USER", "DROP USER"} THEN SubSeq(sql, 2, 4)
              ELSE StatementIdentity(sql)
    IN  CASE Verb(c) = "CREATE DATABASE" -> [host EXCEPT !.databases = @ \cup {sql[2]}]
          [] Verb(c) = "DROP DATABASE" -> [host EXCEPT !.databases = @ \ {sql[2]}]
          [] Verb(c) = "CREATE USER" ->
                IF id \in host.users THEN host
                ELSE [host EXCEPT !.users = @ \cup {id}, !.grants[id] = EmptySnapshot]
          [] Verb(c) = "DROP USER" ->
                [host EXCEPT !.users = @ \ {id}, !.grants[id] = EmptySnapshot]
          [] Verb(c) = "GRANT" ->
                IF id \notin host.users THEN host
                ELSE [host EXCEPT !.grants[id] =
                        Granted(@, StatementScope(sql), SetOf(StatementPermissions(sql)))]
          [] Verb(c) = "REVOKE" ->
                IF id \notin host.users THEN host
                ELSE [host EXCEPT !.grants[id] =
                        Revoked(@, StatementScope(sql), SetOf(StatementPermissions(sql)))]
          [] OTHER -> host

RECURSIVE Apply(_, _)
Apply(host, cmds) ==
    IF cmds = <<>> THEN host ELSE Apply(ApplyCommand(host, Head(cmds)), Tail(cmds))

----------------------------------------------------------------------------
(* The state machine *)

Host == [databases |-> databases, users |-> users, grants |-> grants]

\* the scopes a grant can be made on: global, one database, one table
Scopes == { <<"*", "*">> } \cup { <<d, "*">> : d \in DBNames }
          \cup { <<d, t>> : d \in DBNames, t \in TableNames }
Keys == { DatabaseTable(s[1], s[2]) : s \in Scopes }

HostPermissionSets == SUBSET HostTokens \ {{}}

\* no grant at all, or one grant of one existing identity
InitialGrants(existing) ==
    { [id \in Identities |-> EmptySnapshot] }
    \cup { [id \in Identities |->
              IF id = who THEN WithPermissions(EmptySnapshot, key, perms) ELSE EmptySnapshot] :
           who \in existing, key \in Keys, perms \in HostPermissionSets }

NoCall == [op |-> "none"]

Init ==
    /\ databases \in SUBSET DBNames
    /\ users \in SUBSET Identities
    /\ grants \in InitialGrants(users)
    /\ phase = "idle"
    /\ call = NoCall
    /\ commands = <<>>
    /\ fetches = <<>>
    /\ error = "none"
    /\ rerun = FALSE

PermissionArgs ==
    { [user |-> u, permissions |-> p, user_hostname |-> h,
       database |-> s[1], table |-> s[2], present |-> pr, flush |-> fl] @@ c :
      u \in UserNames, p \in PermissionInputs, h \in Hostnames, s \in Scopes,
      pr \in BOOLEAN, fl \in BOOLEAN, c \in Connections }

UserArgs ==
    { [name |-> n, present |-> pr, user_hostname |-> h, password |-> pw,
       permissions |-> p] @@ c :
      n \in UserNames, pr \in BOOLEAN, h \in Hostnames, pw \in Passwords,
      p \in PermissionInputs \cup {NoPermissions}, c \in Connections }

\* without a user the grant arguments keep their defaults
DatabaseGrantArgs ==
    { [user |-> None, user_hostname |-> "localhost", user_permissions |-> Str("ALL")] }
    \cup { [user |-> u, user_hostname |-> h, user_permissions |-> p] :
           u \in UserNames, h \in Hostnames,
           p \in { q \in PermissionInputs : Len(q.value) <= 1 } }

DatabaseArgs ==
    { [name |-> n, present |-> pr, collate |-> co, charset |-> ch] @@ g @@ c :
      n \in DBNames, pr \in BOOLEAN, co \in Collates, ch \in Charsets,
      g \in DatabaseGrantArgs, c \in Connections }

Run(op, a) ==
    CASE op = "database" -> database(Host, a)
      [] op = "user" -> user(Host, a)
      [] op = "permission" -> permission(Host, a)

Yield(op, a, again) ==
    LET r == Run(op, a)
    IN  /\ call' = [op |-> op, args |-> a]
        /\ commands' = r.commands
        /\ fetches' = r.fetches
        /\ error' = r.error
        /\ phase' = "yielded"
        /\ rerun' = again
        /\ UNCHANGED <<databases, users, grants>>

CallDatabase == phase = "idle" /\ \E a \in DatabaseArgs : Yield("database", a, FALSE)

CallUser == phase = "idle" /\ \E a \in UserArgs : Yield("user", a, FALSE)

CallPermission == phase = "idle" /\ \E a \in PermissionArgs : Yield("permission", a, FALSE)

\* the executor runs the yielded commands in order; a call that raised has
\* handed it none.  With again the deploy is then run a second time.
Execute ==
    /\ phase = "yielded"
    /\ LET after == IF error = "none" THEN Apply(Host, commands) ELSE Host
       IN  /\ databases' = after.databases
           /\ users' = after.users
           /\ grants' = after.grants
    /\ \E again \in BOOLEAN :
         /\ again => (error = "none" /\ ~rerun)
         /\ phase' = IF again THEN "repeat" ELSE "idle"
         /\ call' = IF again THEN call ELSE NoCall
    /\ commands' = <<>>
    /\ fetches' = <<>>
    /\ error' = "none"
    /\ rerun' = FALSE

\* the same call once more, against the updated host
Repeat == phase = "repeat" /\ Yield(call.op, call.args, TRUE)

Next == CallDatabase \/ CallUser \/ CallPermission \/ Execute \/ Repeat

Spec == Init /\ [][Next]_vars

----------------------------------------------------------------------------
(* Properties *)

\* a call has run and its commands are not executed yet: the host variables
\* still hold the snapshot the call saw
Yielded(op) == phase = "yielded" /\ call.op = op

Positions(verbs) == { i \in DOMAIN commands : Verb(commands[i]) \in verbs }
Count(verb) == Cardinality(Positions({verb}))

PermissionVerbs == {"GRANT", "REVOKE", "FLUSH PRIVILEGES"}

\* the snapshot of an identity and the tokens it holds on a scope, read
\* "ALL PRIVILEGES" as "ALL"
SnapshotOf(name, hostname) == grants[<<name, "@", hostname>>]
ScopeKey(a) == DatabaseTable(a.database, a.table)
HeldTokens(snapshot, key) ==
    { IF p = "ALL PRIVILEGES" THEN "ALL" ELSE p : p \in snapshot[key].permissions }

\* some yielded command is <verb> <the whole desired list> ON ...
Emits(verb, desired) ==
    \E i \in DOMAIN commands :
        Verb(commands[i]) = verb /\ StatementPermissions(commands[i].sql) = desired

\* C1: database(D, present) against the existing names E yields exactly one
\* CREATE DATABASE D and no DROP when present and D is not in E; nothing when
\* present, D is in E and no user is given; exactly the one command DROP
\* DATABASE D when not present and D is in E; nothing when not present and D
\* is not in E, with or without a user.
C1_DatabaseCommands ==
    Yielded("database") =>
        LET a == call.args
            inE == a.name \in databases
        IN  /\ (a.present /\ ~inE) =>
                /\ Count("CREATE DATABASE") = 1
                /\ Count("DROP DATABASE") = 0
                /\ commands[1].sql[1] = "CREATE DATABASE" /\ commands[1].sql[2] = a.name
            /\ (a.present /\ inE /\ a.user = None) => commands = <<>>
            /\ (~a.present /\ inE) =>
                /\ Len(commands) = 1
                /\ commands[1].sql = <<"DROP DATABASE", a.name>>
            /\ (~a.present /\ ~inE) => commands = <<>>

\* a missing database is created and the grant for the named user follows
C1_Witness ==
    /\ Yielded("database")
    /\ call.args.present /\ call.args.name \notin databases /\ call.args.user # None
    /\ Len(commands) = 3
    /\ Verb(commands[1]) = "CREATE DATABASE" /\ Verb(commands[2]) = "GRANT"

\* C2: when the scope key is in the snapshot, permission() grants the whole
\* desired list iff some desired token is not held and present is true,
\* revokes the whole desired list iff every desired token is held (a subset
\* test) and present is false, and yields nothing otherwise.
C2_PermissionDecision ==
    (Yielded("permission") /\ ScopeKey(call.args) \in DOMAIN SnapshotOf(call.args.user, call.args.user_hostname)) =>
        LET a == call.args
            desired == EnsureList(a.permissions)
            held == HeldTokens(SnapshotOf(a.user, a.user_hostname), ScopeKey(a))
            subset == SetOf(desired) \subseteq held
        IN  /\ error = "none"
            /\ Emits("GRANT", desired) <=> (~subset /\ a.present)
            /\ Emits("REVOKE", desired) <=> (subset /\ ~a.present)
            /\ Count("GRANT") + Count("REVOKE") <= 1
            /\ (Count("GRANT") + Count("REVOKE") = 0) => commands = <<>>

\* SELECT is revoked, alone, from an identity that holds SELECT and INSERT
C2_Witness ==
    /\ Yielded("permission")
    /\ ScopeKey(call.args) \in DOMAIN SnapshotOf(call.args.user, call.args.user_hostname)
    /\ SnapshotOf(call.args.user, call.args.user_hostname)[ScopeKey(call.args)].permissions
          = {"SELECT", "INSERT"}
    /\ EnsureList(call.args.permissions) = <<"SELECT">>
    /\ ~call.args.present
    /\ Emits("REVOKE", <<"SELECT">>)

\* C3: when the scope key is not in the snapshot, permission() completes
\* normally: a GRANT of the desired tokens with present true, nothing with
\* present false.
C3_MissingKeyCompletes ==
    (Yielded("permission") /\ ScopeKey(call.args) \notin DOMAIN SnapshotOf(call.args.user, call.args.user_hostname)) =>
        /\ error = "none"
        /\ call.args.present => Emits("GRANT", EnsureList(call.args.permissions))
        /\ ~call.args.present => commands = <<>>

\* C4: when the snapshot entry of the scope holds "ALL PRIVILEGES", a desired
\* permission written "ALL" or "ALL PRIVILEGES" counts as granted: present
\* true yields no command.
C4_AllInterchangeable ==
    (/\ Yielded("permission")
     /\ ScopeKey(call.args) \in DOMAIN SnapshotOf(call.args.user, call.args.user_hostname)
     /\ "ALL PRIVILEGES" \in
          SnapshotOf(call.args.user, call.args.user_hostname)[ScopeKey(call.args)].permissions
     /\ EnsureList(call.args.permissions) \in {<<"ALL">>, <<"ALL PRIVILEGES">>}
     /\ call.args.present)
    => commands = <<>>

\* C5: a call repeated against the host its own commands have updated yields
\* no command.
C5_Idempotent ==
    (phase = "yielded" /\ rerun) => commands = <<>>

\* C6: in the commands of permission(), FLUSH PRIVILEGES appears iff flush is
\* true and a GRANT or REVOKE was yielded, at most once, and right after it.
C6_FlushFollowsAction ==
    Yielded("permission") =>
        LET acted == Positions({"GRANT", "REVOKE"})
            flushed == Positions({"FLUSH PRIVILEGES"})
        IN  /\ (flushed # {}) <=> (call.args.flush /\ acted # {})
            /\ Cardinality(flushed) <= 1
            /\ \A i \in flushed : i > 1 /\ (i - 1) \in acted

C6_Witness ==
    /\ Yielded("permission")
    /\ call.args.flush
    /\ Len(commands) = 2
    /\ Verb(commands[1]) = "GRANT" /\ Verb(commands[2]) = "FLUSH PRIVILEGES"

\* C7: user() with present false yields exactly DROP USER name@hostname iff
\* the identity exists, and never a permission command; with present true it
\* yields CREATE USER iff the identity does not exist, the password appears
\* only in that CREATE USER, and the CREATE USER precedes every permission
\* command.
C7_UserCommands ==
    Yielded("user") =>
        LET a == call.args
            inU == <<a.name, "@", a.user_hostname>> \in users
            created == Positions({"CREATE USER"})
        IN  /\ ~a.present =>
                /\ commands = IF inU
                              THEN <<make_execute_mysql_command(
                                        <<"DROP USER", a.name, "@", a.user_hostname>>,
                                        a.mysql_user, a.mysql_password, a.mysql_host, a.mysql_port)>>
                              ELSE <<>>
            /\ a.present =>
                /\ Count("DROP USER") = 0
                /\ (created # {}) <=> ~inU
                /\ Cardinality(created) <= 1
                /\ \A i \in created :
                     SubSeq(commands[i].sql, 1, 4) = <<"CREATE USER", a.name, "@", a.user_hostname>>
                /\ \A i \in DOMAIN commands :
                     (\E j \in DOMAIN commands[i].sql : commands[i].sql[j] = "IDENTIFIED BY")
                        <=> (i \in created /\ a.password # None)
                /\ \A i \in created : \A j \in Positions(PermissionVerbs) : i < j

\* a user is created with its password and a grant follows
C7_Witness ==
    /\ Yielded("user")
    /\ call.args.present /\ call.args.password # None
    /\ Len(commands) = 3
    /\ Verb(commands[1]) = "CREATE USER" /\ Len(commands[1].sql) = 6
    /\ Verb(commands[2]) = "GRANT"

\* C8 as stated: every call fetches at most one fact, before any command.
C8_AtMostOneFetch ==
    phase = "yielded" => (Len(fetches) <= 1 /\ \A i \in DOMAIN fetches : fetches[i].at = 0)

Delegates ==
    \/ /\ call.op = "user" /\ call.args.present
       /\ call.args.permissions.type # "NoneType" /\ call.args.permissions.value # <<>>
    \/ /\ call.op = "database" /\ call.args.present /\ call.args.user # None
       /\ call.args.user_permissions.value # <<>>

OwnFact ==
    CASE call.op = "database" -> "mysql_databases"
      [] call.op = "user" -> "mysql_users"
      [] call.op = "permission" -> "mysql_user_grants"

\* C8 amended: every call fetches its own fact first, before any command; a
\* user or database call that delegates to permission fetches the grant
\* snapshot as well, after its CREATE command when there is one and before
\* every permission command; no call fetches more.
C8_FetchesBeforeCommands ==
    phase = "yielded" =>
        /\ Len(fetches) = IF Delegates THEN 2 ELSE 1
        /\ fetches[1].fact = OwnFact /\ fetches[1].at = 0
        /\ Len(fetches) = 2 =>
            /\ fetches[2].fact = "mysql_user_grants"
            /\ fetches[2].at = Count("CREATE USER") + Count("CREATE DATABASE")
            /\ \A j \in Positions(PermissionVerbs) : fetches[2].at < j

\* a database is created, then the grant snapshot is fetched, then the grant
\* is yielded
C8_Witness ==
    /\ Yielded("database")
    /\ Len(fetches) = 2 /\ fetches[2].at = 1
    /\ error = "none"
    /\ Positions({"CREATE DATABASE"}) = {1} /\ Positions({"GRANT"}) = {2}

\* C9: the permission call user() delegates to reads the grants of, and
\* grants to, the identity name@user_hostname of the user() call.
C9_SameIdentity ==
    Yielded("user") =>
        LET id == <<call.args.name, "@", call.args.user_hostname>>
        IN  /\ \A i \in DOMAIN fetches :
                 fetches[i].fact = "mysql_user_grants" => fetches[i].who = id
            /\ \A i \in Positions({"GRANT", "REVOKE"}) :
                 StatementIdentity(commands[i].sql) = id

\* C10: every command and every fact fetch of a database() or user() call
\* uses the connection parameters of the call.
C10_SameConnection ==
    (phase = "yielded" /\ call.op \in {"database", "user"}) =>
        LET conn == ConnectionOf(call.args)
        IN  /\ \A i \in DOMAIN fetches : fetches[i].conn = conn
            /\ \A i \in DOMAIN commands :
                 <<commands[i].user, commands[i].password, commands[i].host, commands[i].port>> = conn

====
